---- MODULE Spec2Model ----
(***************************************************************************)
(* A model of the namespacing layer of zustand-divisions (src/utils.tsx):  *)
(* the key-prefixing codec, the per-namespace facade over a parent store,  *)
(* the namespaced(...) combinator and the accessor registry.               *)
(*                                                                         *)
(* A JavaScript string is a sequence of one-character strings, so that     *)
(* startsWith, slice and template concatenation are computed and not       *)
(* assumed.  A JavaScript object is a function from keys (strings) to      *)
(* values.                                                                 *)
(***************************************************************************)
EXTENDS Integers, Sequences, FiniteSets, TLC

VARIABLES
    state,          \* the parent store's current state (zustand's `state`)
    initialState,   \* the parent store's initial state
    listeners,      \* the parent store's listeners, in registration order
    calls,          \* the listener invocations made by the last operation
    lastOp,         \* the last operation performed on the store
    setStateCalls,  \* the calls of the parent store's setState it made
    input,          \* the arguments of a call of a pure function
    output          \* what that call returned

vars == <<state, initialState, listeners, calls, lastOp, setStateCalls, input, output>>
storeVars == <<state, initialState, listeners, calls, lastOp, setStateCalls>>
callVars == <<input, output>>

-----------------------------------------------------------------------------
(* Bounds of the model.                                                    *)

MaxVal == 1         \* store values are the numbers 0..MaxVal
MaxSubs == 2        \* at most this many live subscriptions
MaxArgs == 3        \* a call passes at most this many namespaces
MaxCount == 2       \* a counter of the nested store is incremented up to this

-----------------------------------------------------------------------------
(* Strings.                                                                *)

Sep == <<"_">>
S_a == <<"a">>
S_b == <<"b">>
S_x == <<"x">>
S_y == <<"y">>
S_r == <<"r">>
S_name == <<"n", "a", "m", "e">>
S_age == <<"a", "g", "e">>
S_level == <<"l", "e", "v", "e", "l">>
S_creator == <<"c", "r", "e", "a", "t", "o", "r">>
S_user == <<"u", "s", "e", "r">>
S_admin == <<"a", "d", "m", "i", "n">>
S_Alice == <<"A", "l", "i", "c", "e">>
S_undefined == <<"u", "n", "d", "e", "f", "i", "n", "e", "d">>
S_username == S_user \o S_name
S_getState == <<"g", "e", "t", "S", "t", "a", "t", "e">>
S_setState == <<"s", "e", "t", "S", "t", "a", "t", "e">>
S_subscribe == <<"s", "u", "b", "s", "c", "r", "i", "b", "e">>
S_getInitialState == <<"g", "e", "t", "I", "n", "i", "t", "i", "a", "l">> \o <<"S", "t", "a", "t", "e">>

\* String.prototype.startsWith
startsWith(key, p) == Len(key) >= Len(p) /\ SubSeq(key, 1, Len(p)) = p

\* String.prototype.slice(n)
slice(key, n) == SubSeq(key, n + 1, Len(key))

-----------------------------------------------------------------------------
(* Objects.                                                                *)

EmptyObj == [k \in {} |-> 0]

\* { ...acc, [key]: value }
Put(acc, key, value) ==
    [k \in DOMAIN acc \cup {key} |-> IF k = key THEN value ELSE acc[k]]

\* { ...a, ...b }, also Object.assign({}, a, b)
Spread(a, b) ==
    [k \in DOMAIN a \cup DOMAIN b |-> IF k \in DOMAIN b THEN b[k] ELSE a[k]]

\* the object left after `delete obj[k]` for every k of keys
Delete(obj, keys) == [k \in DOMAIN obj \ keys |-> obj[k]]

\* zustand/shallow on two plain objects: same number of keys, and every key
\* of a is a key of b with an Object.is-equal value
shallow(a, b) ==
    /\ Cardinality(DOMAIN a) = Cardinality(DOMAIN b)
    /\ \A k \in DOMAIN a : k \in DOMAIN b /\ a[k] = b[k]

\* all objects with keys among `keys` and values among `vals`
Objects(keys, vals) == UNION {[ks -> vals] : ks \in SUBSET keys}

-----------------------------------------------------------------------------
(* The prefix codec.                                                       *)

RECURSIVE PrefixReduce(_, _, _, _)
PrefixReduce(typePrefix, obj, keys, acc) ==
    IF keys = {} THEN acc
    ELSE LET key == CHOOSE k \in keys : TRUE
         IN PrefixReduce(typePrefix, obj, keys \ {key},
                         Put(acc, typePrefix \o Sep \o key, obj[key]))

\* a prefix codec that leaves the separator out of the key
getPrefixedObject_noSeparator(typePrefix, obj) ==
    [k \in {typePrefix \o key : key \in DOMAIN obj} |->
        obj[CHOOSE key \in DOMAIN obj : typePrefix \o key = k]]

getPrefixedObject(typePrefix, obj) ==
    PrefixReduce(typePrefix, obj, DOMAIN obj, EmptyObj)

RECURSIVE UnprefixReduce(_, _, _, _)
UnprefixReduce(typePrefix, obj, keys, acc) ==
    IF keys = {} THEN acc
    ELSE LET key == CHOOSE k \in keys : TRUE
         IN UnprefixReduce(typePrefix, obj, keys \ {key},
                IF startsWith(key, typePrefix \o Sep)
                THEN Put(acc, slice(key, Len(typePrefix) + 1), obj[key])
                ELSE acc)

\* an unprefix codec that tests key.startsWith(typePrefix), without the
\* separator
getUnprefixedObject_startsWithName(typePrefix, obj) ==
    LET kept == {key \in DOMAIN obj : startsWith(key, typePrefix)}
    IN [k \in {slice(key, Len(typePrefix) + 1) : key \in kept} |->
           obj[CHOOSE key \in kept : slice(key, Len(typePrefix) + 1) = k]]

getUnprefixedObject(typePrefix, obj) ==
    UnprefixReduce(typePrefix, obj, DOMAIN obj, EmptyObj)

-----------------------------------------------------------------------------
(* Values.  A JavaScript value is tagged with its type.                    *)

Num(i) == [kind |-> "number", val |-> i]
Str(s) == [kind |-> "string", val |-> s]
Creator(out) == [kind |-> "function", returns |-> out]
Undefined == [kind |-> "undefined"]

\* obj[key], undefined when the object has no such property
Prop(obj, key) == IF key \in DOMAIN obj THEN obj[key] ELSE Undefined

\* `${v}` for the values a namespace name can be
TemplateString(v) == IF v.kind = "string" THEN v.val ELSE S_undefined

\* a namespace descriptor {name, creator}; the creator is known by the
\* object it returns
Namespace(name, out) ==
    [k \in {S_name, S_creator} |-> IF k = S_name THEN Str(name) ELSE Creator(out)]

NameOf(namespace) == TemplateString(Prop(namespace, S_name))

-----------------------------------------------------------------------------
(* The parent store (zustand's vanilla store), as the facade uses it.      *)

\* StoreApi.setState: the state after setState(partial, replace) on `cur`,
\* where nextState is what `partial` resolved to
storeSetState(cur, nextState, replace) ==
    IF replace THEN nextState ELSE Spread(cur, nextState)

-----------------------------------------------------------------------------
(* The namespaced facade, getNamespacedApi.  A facade is known by its path *)
(* of namespace names, outermost first: <<n>> is the facade of n over the  *)
(* parent store, <<n, m>> the facade of m over the facade of n.            *)

\* An update is a value or a function of the current unprefixed state.
ValueUpdate(patch) == [fn |-> FALSE, val |-> patch]
FunctionUpdate(f) == [fn |-> TRUE, f |-> f]

\* the functions a caller passes: incX is s => ({x: s.x + 1})
applyFunction(f, s) ==
    IF f = "incX" THEN Put(EmptyObj, S_x, Num(s[S_x].val + 1)) ELSE s

\* typeof state === 'function' ? state(unprefixedState) : state
resolveUpdate(upd, unprefixedState) ==
    IF upd.fn THEN applyFunction(upd.f, unprefixedState) ELSE upd.val

\* an updater that prefixes only at the innermost facade, so that a facade
\* over a facade hands the lower facade's patch on as it is
RECURSIVE setStateUpdater_innermostPrefixOnly(_, _, _, _)
setStateUpdater_innermostPrefixOnly(path, upd, replace, currentState) ==
    LET name == Head(path)
        innermost == Len(path) = 1
        unprefixedState == getUnprefixedObject(name, currentState)
        updatedState ==
            IF innermost THEN resolveUpdate(upd, unprefixedState)
            ELSE setStateUpdater_innermostPrefixOnly(Tail(path), upd, replace, unprefixedState)
    IN  IF ~innermost THEN updatedState
        ELSE IF replace
        THEN LET prefixedState == getPrefixedObject(name, unprefixedState)
                 newState == Delete(currentState, DOMAIN prefixedState)
             IN Spread(newState, getPrefixedObject(name, updatedState))
        ELSE getPrefixedObject(name, updatedState)

\* The function the facade hands to api.setState, applied to currentState.
\* For a facade over a facade the state argument of the outer setState is
\* the inner facade's function, and its replace argument is undefined.
RECURSIVE setStateUpdater(_, _, _, _)
setStateUpdater(path, upd, replace, currentState) ==
    LET name == Head(path)
        innermost == Len(path) = 1
        unprefixedState == getUnprefixedObject(name, currentState)
        updatedState ==
            IF innermost THEN resolveUpdate(upd, unprefixedState)
            ELSE setStateUpdater(Tail(path), upd, replace, unprefixedState)
    IN  IF innermost /\ replace
        THEN LET prefixedState == getPrefixedObject(name, unprefixedState)
                 newState == Delete(currentState, DOMAIN prefixedState)
             IN Spread(newState, getPrefixedObject(name, updatedState))
        ELSE getPrefixedObject(name, updatedState)

\* a facade setState that makes the parent replace its state
namespacedSetState_parentReplaces(path, upd, replace, cur) ==
    storeSetState(cur, setStateUpdater(path, upd, replace, cur), TRUE)

\* a facade setState whose updater is run on the parent's initial state
namespacedSetState_staleSnapshot(path, upd, replace, cur) ==
    storeSetState(cur, setStateUpdater(path, upd, replace, initialState), FALSE)

\* a facade setState that hands its replace argument on to the parent with
\* the prefixed patch alone
namespacedSetState_forwardsReplace(path, upd, replace, cur) ==
    storeSetState(cur, setStateUpdater(path, upd, FALSE, cur), replace)

\* facade.setState(upd, replace): one api.setState(updater) call, which
\* passes no replace argument
namespacedSetState(path, upd, replace, cur) ==
    storeSetState(cur, setStateUpdater(path, upd, replace, cur), FALSE)

\* a facade setState that calls api.setState again for every facade below it
RECURSIVE namespacedSetStateCalls_retries(_, _)
namespacedSetStateCalls_retries(path, replace) ==
    IF path = <<>> THEN << [replace |-> replace] >>
    ELSE namespacedSetStateCalls_retries(SubSeq(path, 1, Len(path) - 1), FALSE)
         \o (IF Len(path) > 1 THEN << [replace |-> FALSE] >> ELSE << >>)

\* The calls of the parent store's setState that setState(_, replace) on the
\* facade of path makes, each with the replace argument the store sees: the
\* facade calls api.setState(updater) once, and api is the facade below it
\* or, under the outermost facade, the store.
RECURSIVE namespacedSetStateCalls(_, _)
namespacedSetStateCalls(path, replace) ==
    IF path = <<>> THEN << [replace |-> replace] >>
    ELSE namespacedSetStateCalls(SubSeq(path, 1, Len(path) - 1), FALSE)

\* a facade getState that reads the parent's initial state
RECURSIVE namespacedGetState_initial(_, _)
namespacedGetState_initial(path, parentState) ==
    IF path = <<>> THEN initialState
    ELSE getUnprefixedObject(path[Len(path)],
             namespacedGetState_initial(SubSeq(path, 1, Len(path) - 1), parentState))

\* facade.getState() and facade.getInitialState(), given the parent's
RECURSIVE namespacedGetState(_, _)
namespacedGetState(path, parentState) ==
    IF path = <<>> THEN parentState
    ELSE namespacedGetState(Tail(path), getUnprefixedObject(Head(path), parentState))

\* a listener wrapper without the shallow comparison
RECURSIVE listenerCalls_noShallow(_, _, _)
listenerCalls_noShallow(path, newState, oldState) ==
    IF path = <<>> THEN << [new |-> newState, old |-> oldState] >>
    ELSE listenerCalls_noShallow(Tail(path),
             getUnprefixedObject(Head(path), newState),
             getUnprefixedObject(Head(path), oldState))

\* The listener wrapper of facade.subscribe on a parent notification
\* (newState, oldState): the calls of the caller's listener it makes.
RECURSIVE listenerCalls(_, _, _)
listenerCalls(path, newState, oldState) ==
    IF path = <<>> THEN << [new |-> newState, old |-> oldState] >>
    ELSE LET newUnprefixedState == getUnprefixedObject(Head(path), newState)
             oldUnprefixedState == getUnprefixedObject(Head(path), oldState)
         IN IF shallow(newUnprefixedState, oldUnprefixedState) THEN << >>
            ELSE listenerCalls(Tail(path), newUnprefixedState, oldUnprefixedState)

\* listeners.forEach((listener) => listener(state, previousState)); a
\* subscriber is known by the path of the facade it subscribed through
notifyOne(path, newState, oldState) ==
    LET made == listenerCalls(path, newState, oldState)
    IN [j \in 1..Len(made) |-> [path |-> path, new |-> made[j].new, old |-> made[j].old]]

notify(ls, newState, oldState) ==
    LET acc[i \in 0..Len(ls)] ==
            IF i = 0 THEN << >>
            ELSE acc[i - 1] \o notifyOne(ls[i], newState, oldState)
    IN acc[Len(ls)]

-----------------------------------------------------------------------------
(* The combinator, namespaced(...namespaces)(creator).                     *)

\* the elements of an array
Elements(array) == {array[i] : i \in 1..Len(array)}

\* a reduce that spreads the accumulator over the callback's result
spreadNamespaces_accumulatorLast(namespaces, callback) ==
    LET acc[i \in 0..Len(namespaces)] ==
            IF i = 0 THEN EmptyObj
            ELSE Spread(callback[namespaces[i]], acc[i - 1])
    IN acc[Len(namespaces)]

\* namespaces.reduce((acc, namespace) => ({...acc, ...callback(namespace)}), {});
\* the callback is given as a function on the namespaces
spreadNamespaces(namespaces, callback) ==
    LET acc[i \in 0..Len(namespaces)] ==
            IF i = 0 THEN EmptyObj
            ELSE Spread(acc[i - 1], callback[namespaces[i]])
    IN acc[Len(namespaces)]

\* the function transformCallback(...args) returns, applied to a namespace
transformCallback(namespace) ==
    getPrefixedObject(NameOf(namespace), Prop(namespace, S_creator).returns)

spreadTransformedNamespaces(namespaces) ==
    spreadNamespaces(namespaces, [n \in Elements(namespaces) |-> transformCallback(n)])

\* a combinator that spreads the root creator's keys first
namespaced_rootFirst(namespaces, creator) ==
    Spread(IF creator.kind = "undefined" THEN EmptyObj ELSE creator.returns,
           spreadNamespaces(namespaces,
               [n \in Elements(namespaces) |->
                   getPrefixedObject(NameOf(n), Prop(n, S_creator).returns)]))

\* namespaced(...namespaces)(creator)(set, get, api); creator is the root
\* creator, or Undefined when none is given: ...creator?.(set, get, api)
namespaced(namespaces, creator) ==
    Spread(spreadTransformedNamespaces(namespaces),
           IF creator.kind = "undefined" THEN EmptyObj ELSE creator.returns)

-----------------------------------------------------------------------------------------------------------------------------------------------------
(* The store as a state machine: a parent store created from                *)
(* namespaced(a, b)(root), written through the facades of a and b and       *)
(* directly, and subscribed to through the facades and directly.            *)

Vals == {Num(i) : i \in 0..MaxVal}
Names == {S_a, S_b}

\* the keys of each namespace's own state: a is {x, y}, b is {x}
LocalKeys(name) == IF name = S_a THEN {S_x, S_y} ELSE {S_x}
RootKeys == {S_r}
ParentKeys == {n \o Sep \o k : n \in Names, k \in {S_x, S_y}} \cup RootKeys

\* the facades in use, and the facades subscribed through
Paths == {<<n>> : n \in Names}
SubscriberPaths == Paths

Patches(path) == Objects(LocalKeys(path[Len(path)]), Vals)
ParentPatches ==
    {p \in Objects({S_a \o Sep \o S_x, S_a \o Sep \o S_y, S_b \o Sep \o S_x, S_r}, Vals) :
        Cardinality(DOMAIN p) <= 1}
Functions == {"incX"}

\* what a caller replaces the whole parent state with: the initial state,
\* or the current state without one key of namespace a
Replacements(cur) ==
    {initialState} \cup {Delete(cur, {k}) : k \in DOMAIN cur \cap DOMAIN getPrefixedObject(S_a, [j \in LocalKeys(S_a) |-> 0])}

NoOp == [op |-> "none"]
NoCall == [fn |-> "none"]
NotCalled == [done |-> FALSE]
Returned(v) == [done |-> TRUE, value |-> v]

Init ==
    /\ initialState = namespaced(<<Namespace(S_a, Put(EmptyObj, S_x, Num(0))),
                                   Namespace(S_b, Put(EmptyObj, S_x, Num(0)))>>,
                                 Creator(Put(EmptyObj, S_r, Num(0))))
    /\ state = initialState
    /\ listeners = << >>
    /\ calls = << >>
    /\ lastOp = NoOp
    /\ setStateCalls = << >>
    /\ input = NoCall
    /\ output = NotCalled

\* facade.setState(update, replace).  The `set` handed to the namespace's
\* creator is this same function of a facade of the same namespace over the
\* same api (transformStateCreatorArgs returns newApi.setState), so a write
\* through it is this action too.
FacadeSetState(path, upd, replace) ==
    /\ upd.fn => S_x \in DOMAIN namespacedGetState(path, state)
    /\ state' = namespacedSetState(path, upd, replace, state)
    /\ setStateCalls' = namespacedSetStateCalls(path, replace)
    /\ calls' = notify(listeners, state', state)
    /\ lastOp' = [op |-> "facadeSet", path |-> path, fn |-> upd.fn, replace |-> replace]
    /\ UNCHANGED <<initialState, listeners, input, output>>

\* parent.setState(patch, replace) called directly on the store
ParentSetState(patch, replace) ==
    /\ state' = storeSetState(state, patch, replace)
    /\ setStateCalls' = namespacedSetStateCalls(<< >>, replace)
    /\ calls' = notify(listeners, state', state)
    /\ lastOp' = [op |-> "parentSet", replace |-> replace]
    /\ UNCHANGED <<initialState, listeners, input, output>>

Subscribed == {listeners[i] : i \in 1..Len(listeners)}

\* facade.subscribe(listener), or parent.subscribe(listener) for path <<>>
Subscribe(path) ==
    /\ Len(listeners) < MaxSubs
    /\ path \notin Subscribed
    /\ listeners' = Append(listeners, path)
    /\ lastOp' = [op |-> "subscribe", path |-> path]
    /\ calls' = << >>
    /\ setStateCalls' = << >>
    /\ UNCHANGED <<state, initialState, input, output>>

\* an unsubscribe function that removes nothing from the parent
Unsubscribe_keepsListener(path) ==
    /\ path \in Subscribed
    /\ listeners' = listeners
    /\ lastOp' = [op |-> "unsubscribe", path |-> path]
    /\ calls' = << >>
    /\ setStateCalls' = << >>
    /\ UNCHANGED <<state, initialState, input, output>>

\* the unsubscribe function subscribe returned
Unsubscribe(path) ==
    /\ path \in Subscribed
    /\ listeners' = SelectSeq(listeners, LAMBDA l : l # path)
    /\ lastOp' = [op |-> "unsubscribe", path |-> path]
    /\ calls' = << >>
    /\ setStateCalls' = << >>
    /\ UNCHANGED <<state, initialState, input, output>>

\* the counter x seen through the facade of path is there and below cap
Below(path, cap) ==
    /\ S_x \in DOMAIN namespacedGetState(path, state)
    /\ namespacedGetState(path, state)[S_x].val < cap

NextWrite ==
    \/ \E path \in Paths, replace \in BOOLEAN : \E patch \in Patches(path) :
          FacadeSetState(path, ValueUpdate(patch), replace)
    \/ \E path \in Paths, f \in Functions, replace \in BOOLEAN :
          Below(path, MaxVal) /\ FacadeSetState(path, FunctionUpdate(f), replace)
    \/ \E patch \in ParentPatches : ParentSetState(patch, FALSE)
    \/ \E next \in Replacements(state) : ParentSetState(next, TRUE)

Next ==
    \/ NextWrite
    \/ \E path \in SubscriberPaths : Subscribe(path)
    \/ \E path \in SubscriberPaths : Unsubscribe(path)

\* the store with its writers and subscribers
Spec == Init /\ [][Next]_vars

\* the store with its writers alone: no listener is ever subscribed
WriteSpec == Init /\ [][NextWrite]_vars

-----------------------------------------------------------------------------
(* A store with a namespace inside a namespace: the creator of a is itself *)
(* namespaced(b)(root), so that b's creator is handed the facade of b over *)
(* the facade of a.  b's creator returns the counter x and so does root,   *)
(* so that a's own state is {b_x, x}.  The store is written through both   *)
(* facades and subscribed to through them and directly.                    *)

NestedFacade == <<S_a, S_b>>
NestPaths == {<<S_a>>, NestedFacade}
NestSubscriberPaths == {<< >>} \cup NestPaths

\* the state a's creator returns: namespaced(b)(root)(set, get, api)
NestedCreatorOutput ==
    namespaced(<<Namespace(S_b, Put(EmptyObj, S_x, Num(0)))>>,
               Creator(Put(EmptyObj, S_x, Num(0))))

\* the patches written through each facade, of one key at most: a's own
\* state has the keys b_x and x, b's has x
NestPatches(path) ==
    IF path = NestedFacade THEN Objects({S_x}, Vals)
    ELSE {p \in Objects({S_b \o Sep \o S_x, S_x}, Vals) : Cardinality(DOMAIN p) <= 1}

NestInit ==
    /\ initialState = namespaced(<<Namespace(S_a, NestedCreatorOutput)>>, Undefined)
    /\ state = initialState
    /\ listeners = << >>
    /\ calls = << >>
    /\ lastOp = NoOp
    /\ setStateCalls = << >>
    /\ input = NoCall
    /\ output = NotCalled

NestNext ==
    \/ \E path \in NestPaths, replace \in BOOLEAN : \E patch \in NestPatches(path) :
          FacadeSetState(path, ValueUpdate(patch), replace)
    \/ \E path \in NestPaths, f \in Functions, replace \in BOOLEAN :
          Below(path, MaxCount) /\ FacadeSetState(path, FunctionUpdate(f), replace)
    \/ \E path \in NestSubscriberPaths : Subscribe(path)
    \/ \E path \in NestSubscriberPaths : Unsubscribe(path)

NestSpec == NestInit /\ [][NestNext]_vars

-----------------------------------------------------------------------------
(* The helpers and the accessor registry.                                  *)

\* toNamespace(namespace, state), called with the argument list args
toNamespace(args) ==
    LET namespace == args[1]
        st == args[2]
    IN getUnprefixedObject(NameOf(namespace), st)

\* fromNamespace(namespace, state), called with the argument list args
fromNamespace(args) ==
    LET namespace == args[1]
        st == args[2]
    IN getPrefixedObject(NameOf(namespace), st)

\* a method of the facade of `path`
Method(path, method) == [kind |-> "function", facade |-> path, method |-> method]

FacadeMethods == {S_getInitialState, S_getState, S_setState, S_subscribe}

\* getNamespaceHook(api, namespace): Object.assign(hook, namespaceApi), the
\* hook with the facade's methods as properties; api is the facade of
\* apiPath (<<>> for the parent store)
getNamespaceHook(apiPath, namespace) ==
    [m \in FacadeMethods |-> Method(apiPath \o <<NameOf(namespace)>>, m)]

\* the decimal digits, for array indices as property keys
Digits == <<"0", "1", "2", "3", "4", "5", "6", "7", "8", "9">>
IndexKey(i) == <<Digits[i + 1]>>

\* namespaces.map(callback) as an object: the elements under their indices
arrayMap(namespaces, callback) ==
    [k \in {IndexKey(i - 1) : i \in 1..Len(namespaces)} |->
        callback[namespaces[CHOOSE i \in 1..Len(namespaces) : IndexKey(i - 1) = k]]]

\* withFactories(api).getNamespaceHook(...namespaces)
getNamespaceHooks(apiPath, namespaces) ==
    IF Len(namespaces) = 1 THEN getNamespaceHook(apiPath, namespaces[1])
    ELSE arrayMap(namespaces,
                  [n \in Elements(namespaces) |-> getNamespaceHook(apiPath, n)])

-----------------------------------------------------------------------------
(* Calls of the pure functions: the arguments are drawn at the start, the  *)
(* call returns once.                                                      *)

\* sequences over S of length lo..hi
SeqsOf(S, lo, hi) == UNION {[1..n -> S] : n \in lo..hi}

CodecVals == Vals \cup {Str(S_Alice)}

\* namespace names, with the empty name, a name that holds the separator
\* and a name that begins with another
CodecNames == {S_user, S_username, S_admin, S_a \o Sep \o S_b, << >>}

\* unprefixed keys, with the empty key and keys that hold the separator
PlainKeys == {S_name, S_age, Sep \o S_x, << >>}

\* keys of a flat parent state around the boundary of "user_"
FlatKeys ==
    {S_user \o Sep \o S_name, S_username, S_user \o Sep,
     S_admin \o Sep \o S_level, S_a \o Sep \o S_b \o Sep \o S_x}

\* the states and descriptors of the helpers' callers
AliceState ==
    [k \in {S_name, S_age} |-> IF k = S_name THEN Str(S_Alice) ELSE Num(25)]
HelperStates ==
    {[k \in ks |-> AliceState[k]] : ks \in SUBSET {S_name, S_age}}
    \cup {getPrefixedObject(S_user, AliceState),
          Put(getPrefixedObject(S_user, AliceState), S_admin \o Sep \o S_level, Num(1))}
HelperNamespaces ==
    {Namespace(S_user, AliceState), Namespace(S_admin, Put(EmptyObj, S_level, Num(1)))}

\* the descriptors and root creators handed to namespaced(...)
CreatorOutputs == Objects({S_x, S_y}, Vals)
CombinedNamespaces ==
    {<<Namespace(ns[1], o1)>> : ns \in Names \X Names, o1 \in CreatorOutputs}
    \cup {<<Namespace(ns[1], o[1]), Namespace(ns[2], o[2])>> :
            ns \in Names \X Names, o \in CreatorOutputs \X CreatorOutputs}
RootCreators ==
    {Undefined} \cup {Creator(o) : o \in Objects({S_r, S_a \o Sep \o S_x}, Vals)}

CallInputs ==
    {[fn |-> "getPrefixedObject", typePrefix |-> n, obj |-> o] :
        n \in CodecNames, o \in Objects(PlainKeys, CodecVals)}
    \cup {[fn |-> "getUnprefixedObject", typePrefix |-> n, obj |-> o] :
            n \in CodecNames, o \in Objects(FlatKeys, CodecVals)}
    \cup {[fn |-> f, args |-> a] :
            f \in {"toNamespace", "fromNamespace"},
            a \in SeqsOf(HelperStates \cup HelperNamespaces, 2, MaxArgs)}
    \cup {[fn |-> "namespaced", namespaces |-> n, creator |-> c] :
            n \in CombinedNamespaces, c \in RootCreators}
    \cup {[fn |-> "getNamespaceHook", namespaces |-> n] :
            n \in SeqsOf(HelperNamespaces, 1, MaxArgs)}

CallInit ==
    /\ initialState = EmptyObj
    /\ state = initialState
    /\ listeners = << >>
    /\ calls = << >>
    /\ lastOp = NoOp
    /\ setStateCalls = << >>
    /\ input \in CallInputs
    /\ output = NotCalled

Return(fn, value) ==
    /\ input.fn = fn
    /\ output = NotCalled
    /\ output' = Returned(value)
    /\ UNCHANGED <<storeVars, input>>

CallGetPrefixedObject ==
    Return("getPrefixedObject", getPrefixedObject(input.typePrefix, input.obj))

CallGetUnprefixedObject ==
    Return("getUnprefixedObject", getUnprefixedObject(input.typePrefix, input.obj))

CallToNamespace == Return("toNamespace", toNamespace(input.args))

CallFromNamespace == Return("fromNamespace", fromNamespace(input.args))

CallNamespaced == Return("namespaced", namespaced(input.namespaces, input.creator))

CallGetNamespaceHook ==
    Return("getNamespaceHook", getNamespaceHooks(<< >>, input.namespaces))

CallNext ==
    \/ CallGetPrefixedObject
    \/ CallGetUnprefixedObject
    \/ CallToNamespace
    \/ CallFromNamespace
    \/ CallNamespaced
    \/ CallGetNamespaceHook

CallSpec == CallInit /\ [][CallNext]_vars

-----------------------------------------------------------------------------
(* Properties of the pure functions, under CallSpec.                       *)

ReturnedFrom(fn) == input.fn = fn /\ output.done

\* C4: round trip of the codec: for every namespace name n and every flat
\* object o, getUnprefixedObject(n, getPrefixedObject(n, o)) has exactly the
\* keys and values of o.
C4_RoundTrip ==
    ReturnedFrom("getPrefixedObject") =>
        LET back == getUnprefixedObject(input.typePrefix, output.value)
        IN /\ DOMAIN back = DOMAIN input.obj
           /\ \A k \in DOMAIN input.obj : back[k] = input.obj[k]

\* a prefix call of a two-key object under the name "user" has returned
C4_Witness ==
    /\ ReturnedFrom("getPrefixedObject")
    /\ input.typePrefix = S_user
    /\ DOMAIN input.obj = {S_name, S_age}
    /\ DOMAIN output.value = {S_user \o Sep \o S_name, S_user \o Sep \o S_age}

\* the keys of obj that are typePrefix, the separator, and a rest
BoundaryKeys(typePrefix, obj) ==
    {k \in DOMAIN obj :
        \E i \in 1..(Len(k) + 1) : k = typePrefix \o Sep \o SubSeq(k, i, Len(k))}

\* C5: boundary exclusion: getUnprefixedObject(name, obj) has an entry rest
\* exactly for the keys name + '_' + rest of obj, with the value of that key,
\* and drops every other key; unprefix("user", {user_name: A, username: B})
\* is {name: A}.
C5_BoundaryExclusion ==
    ReturnedFrom("getUnprefixedObject") =>
        LET pre == input.typePrefix \o Sep
            out == output.value
        IN /\ \A rest \in DOMAIN out :
                /\ pre \o rest \in DOMAIN input.obj
                /\ out[rest] = input.obj[pre \o rest]
           /\ \A k \in BoundaryKeys(input.typePrefix, input.obj) :
                \E rest \in DOMAIN out : k = pre \o rest
           /\ (input.typePrefix = S_user
               /\ DOMAIN input.obj = {S_user \o Sep \o S_name, S_username})
              => /\ DOMAIN out = {S_name}
                 /\ out[S_name] = input.obj[S_user \o Sep \o S_name]

\* unprefix("user", {user_name: "Alice", username: 0}) has returned
C5_Witness ==
    /\ ReturnedFrom("getUnprefixedObject")
    /\ input.typePrefix = S_user
    /\ DOMAIN input.obj = {S_user \o Sep \o S_name, S_username}
    /\ input.obj[S_user \o Sep \o S_name] = Str(S_Alice)
    /\ input.obj[S_username] = Num(0)
    /\ DOMAIN output.value = {S_name}

DistinctNames(namespaces) ==
    \A i, j \in 1..Len(namespaces) : i # j => NameOf(namespaces[i]) # NameOf(namespaces[j])

RootKeysOf(creator) ==
    IF creator.kind = "undefined" THEN {} ELSE DOMAIN creator.returns

\* C6: combined state shape: for descriptors with distinct names and an
\* optional root creator, the combined object has name_k for every key k of
\* every descriptor's creator output, with that output's value unless the
\* root creator returns a key of that literal name, and every root key
\* unprefixed with the root's value.
C6_CombinedShape ==
    (ReturnedFrom("namespaced") /\ DistinctNames(input.namespaces)) =>
        LET out == output.value
            rootKeys == RootKeysOf(input.creator)
        IN /\ \A i \in 1..Len(input.namespaces) :
                LET name == input.namespaces[i][S_name].val
                    made == input.namespaces[i][S_creator].returns
                IN \A k \in DOMAIN made :
                      /\ name \o Sep \o k \in DOMAIN out
                      /\ name \o Sep \o k \notin rootKeys
                            => out[name \o Sep \o k] = made[k]
           /\ \A r \in rootKeys : r \in DOMAIN out /\ out[r] = input.creator.returns[r]

\* namespaced(a, b)(root) has returned where a's creator gave x = 0 and the
\* root creator gave a_x = 1 and r
C6_Witness ==
    /\ ReturnedFrom("namespaced")
    /\ Len(input.namespaces) = 2
    /\ input.namespaces[1][S_name].val = S_a
    /\ input.namespaces[2][S_name].val = S_b
    /\ DOMAIN input.namespaces[1][S_creator].returns = {S_x, S_y}
    /\ input.namespaces[1][S_creator].returns[S_x] = Num(0)
    /\ S_x \in DOMAIN input.namespaces[2][S_creator].returns
    /\ input.creator.kind = "function"
    /\ DOMAIN input.creator.returns = {S_r, S_a \o Sep \o S_x}
    /\ input.creator.returns[S_a \o Sep \o S_x] = Num(1)
    /\ output.value[S_a \o Sep \o S_x] = Num(1)
    /\ S_b \o Sep \o S_x \in DOMAIN output.value

\* prefixing folded left to right over the descriptors ds[from..Len(ds)]:
\* acc <- prefix(name of d_i, acc)
FoldPrefixes(st, ds, from) ==
    LET acc[i \in (from - 1)..Len(ds)] ==
            IF i = from - 1 THEN st
            ELSE getPrefixedObject(ds[i][S_name].val, acc[i - 1])
    IN acc[Len(ds)]

StateThenNamespaces(args) ==
    /\ args[1] \in HelperStates
    /\ \A i \in 2..Len(args) : args[i] \in HelperNamespaces

\* C7: nested prefixing: fromNamespace(state, n1, ..., nk) folds prefixing
\* left to right, the first descriptor innermost and the last outermost;
\* fromNamespace({name, age}, admin, user) is {user_admin_name,
\* user_admin_age} and with the one descriptor user it is {user_name,
\* user_age}.
C7_NestedPrefixing ==
    (ReturnedFrom("fromNamespace") /\ StateThenNamespaces(input.args)) =>
        LET expected == FoldPrefixes(input.args[1], input.args, 2)
        IN /\ DOMAIN output.value = DOMAIN expected
           /\ \A k \in DOMAIN expected : output.value[k] = expected[k]

\* C8: toNamespace(state, descriptor) is the namespace slice: the entries of
\* state whose key begins with name + '_', with that prefix stripped, and
\* toNamespace(fromNamespace(o, d), d) is o.
C8_NamespaceSlice ==
    (ReturnedFrom("toNamespace") /\ Len(input.args) = 2
     /\ StateThenNamespaces(input.args)) =>
        LET pre == input.args[2][S_name].val \o Sep
            out == output.value
        IN /\ \A rest \in DOMAIN out :
                /\ pre \o rest \in DOMAIN input.args[1]
                /\ out[rest] = input.args[1][pre \o rest]
           /\ \A k \in BoundaryKeys(input.args[2][S_name].val, input.args[1]) :
                \E rest \in DOMAIN out : k = pre \o rest
           /\ \A o \in HelperStates, d \in HelperNamespaces :
                LET back == toNamespace(<<fromNamespace(<<o, d>>), d>>)
                IN DOMAIN back = DOMAIN o /\ \A k \in DOMAIN o : back[k] = o[k]

\* result[key] is the accessor of the namespace
HoldsAccessor(result, key, namespace) ==
    /\ key \in DOMAIN result
    /\ DOMAIN result[key] = FacadeMethods
    /\ \A m \in FacadeMethods : result[key][m] = Method(<<NameOf(namespace)>>, m)

\* C10: accessor registry: the accessors asked for descriptors d1..dk over
\* one store are addressable positionally (result[i] is the accessor of d_i)
\* and by namespace name (result[d_i.name]), also when k = 1, and each
\* exposes getState, setState, subscribe and getInitialState of the facade
\* of its own descriptor.
C10_AccessorRegistry ==
    ReturnedFrom("getNamespaceHook") =>
        \A i \in 1..Len(input.namespaces) :
            /\ HoldsAccessor(output.value, IndexKey(i - 1), input.namespaces[i])
            /\ HoldsAccessor(output.value, NameOf(input.namespaces[i]), input.namespaces[i])

\* C12: duplicate names are last-write-wins: when two descriptors of one
\* namespaced(...) call have the same name, a key k both creators return is
\* held under name_k with the later descriptor's value, and a key only the
\* earlier creator returns is still there with its value (unless the root
\* creator returns a key of that literal name, which is spread last).
C12_LastWriteWins ==
    (/\ ReturnedFrom("namespaced")
     /\ Len(input.namespaces) = 2
     /\ NameOf(input.namespaces[1]) = NameOf(input.namespaces[2])) =>
        LET name == NameOf(input.namespaces[1])
            earlier == input.namespaces[1][S_creator].returns
            later == input.namespaces[2][S_creator].returns
            out == output.value
        IN \A k \in DOMAIN earlier \cup DOMAIN later :
              /\ name \o Sep \o k \in DOMAIN out
              /\ name \o Sep \o k \notin RootKeysOf(input.creator)
                    => out[name \o Sep \o k] =
                          IF k \in DOMAIN later THEN later[k] ELSE earlier[k]

\* namespaced(a, a)() has returned where the earlier creator gave x = 0 and
\* y = 0 and the later gave x = 1
C12_Witness ==
    /\ ReturnedFrom("namespaced")
    /\ Len(input.namespaces) = 2
    /\ NameOf(input.namespaces[1]) = S_a
    /\ NameOf(input.namespaces[2]) = S_a
    /\ input.namespaces[1][S_creator].returns = [k \in {S_x, S_y} |-> Num(0)]
    /\ input.namespaces[2][S_creator].returns = [k \in {S_x} |-> Num(1)]
    /\ input.creator.kind = "undefined"
    /\ output.value = [k \in {S_a \o Sep \o S_x, S_a \o Sep \o S_y} |->
                          IF k = S_a \o Sep \o S_x THEN Num(1) ELSE Num(0)]

SeparatorFree(name) == \A i \in 1..Len(name) : <<name[i]>> # Sep

\* C17: namespace disjointness: for two distinct namespace names without
\* the separator and any objects, the keys of prefix(a, o1) and of
\* prefix(b, o2) are disjoint and unprefix(b, prefix(a, o1)) is empty; no
\* entry of unprefix(a, state) comes from a key of state that begins with
\* the prefix of b; and in the state namespaced(...) combines from
\* descriptors of distinct names the view of one namespace has no entry
\* that another's creator contributed.
C17_Disjointness ==
    /\ (ReturnedFrom("getPrefixedObject") /\ SeparatorFree(input.typePrefix)) =>
          \A other \in CodecNames \ {input.typePrefix} :
             SeparatorFree(other) =>
                /\ DOMAIN getUnprefixedObject(other, output.value) = {}
                /\ \A o2 \in Objects(PlainKeys, {Num(0)}) :
                      DOMAIN getPrefixedObject(other, o2) \cap DOMAIN output.value = {}
    /\ (ReturnedFrom("getUnprefixedObject") /\ SeparatorFree(input.typePrefix)) =>
          \A other \in CodecNames \ {input.typePrefix} :
             SeparatorFree(other) =>
                \A rest \in DOMAIN output.value :
                   ~startsWith(input.typePrefix \o Sep \o rest, other \o Sep)
    /\ (ReturnedFrom("namespaced") /\ DistinctNames(input.namespaces)) =>
          \A i, j \in 1..Len(input.namespaces) :
             i # j =>
                LET view == getUnprefixedObject(NameOf(input.namespaces[i]), output.value)
                    others == getPrefixedObject(NameOf(input.namespaces[j]),
                                                input.namespaces[j][S_creator].returns)
                IN \A k \in DOMAIN view :
                      NameOf(input.namespaces[i]) \o Sep \o k \notin DOMAIN others

\* prefix("user", {name, age}) has returned {user_name, user_age}, of which
\* the namespace "username" sees nothing
C17_Witness ==
    /\ ReturnedFrom("getPrefixedObject")
    /\ input.typePrefix = S_user
    /\ DOMAIN input.obj = {S_name, S_age}
    /\ S_username \in CodecNames
    /\ DOMAIN output.value = {S_user \o Sep \o S_name, S_user \o Sep \o S_age}
    /\ DOMAIN getUnprefixedObject(S_username, output.value) = {}

-----------------------------------------------------------------------------
(* Properties of the store.                                                *)

Updates(path) ==
    {ValueUpdate(patch) : patch \in Patches(path)} \cup {FunctionUpdate(f) : f \in Functions}

\* the last step was facade.setState(upd, replace) on the facade of path
FacadeWrote(path, upd, replace) ==
    /\ lastOp' = [op |-> "facadeSet", path |-> path, fn |-> upd.fn, replace |-> replace]
    /\ FacadeSetState(path, upd, replace)

\* the last step was parent.setState(patch, replace)
ParentWrote(patch, replace) ==
    /\ lastOp' = [op |-> "parentSet", replace |-> replace]
    /\ ParentSetState(patch, replace)

\* the parent keys that begin with name + '_'
KeysOf(name, parentState) == {k \in DOMAIN parentState : startsWith(k, name \o Sep)}

\* C1: replace write removes stale keys: after facade.setState(P, true) the
\* parent keys beginning with the namespace's prefix are exactly the
\* prefixed keys of P, with P's values, so that facade.getState() is P.
C1_ReplaceRemovesStaleKeys ==
    [][\A path \in Paths : \A patch \in Patches(path) :
          FacadeWrote(path, ValueUpdate(patch), TRUE) =>
             /\ KeysOf(path[1], state') = DOMAIN getPrefixedObject(path[1], patch)
             /\ \A k \in DOMAIN patch : state'[path[1] \o Sep \o k] = patch[k]]_vars

\* C2: facade write isolation: a non-replacing write through the facade of
\* a namespace leaves every parent key that does not begin with that
\* namespace's prefix (the keys of the other namespaces and the root keys)
\* present with an unchanged value, and changes or adds only the prefixed
\* keys of its patch.
C2_MergeWriteIsolation ==
    [][\A path \in Paths : \A upd \in Updates(path) :
          FacadeWrote(path, upd, FALSE) =>
             LET name == path[1]
                 patch == resolveUpdate(upd, namespacedGetState(path, state))
             IN /\ \A k \in DOMAIN state \ KeysOf(name, state) :
                      k \in DOMAIN state' /\ state'[k] = state[k]
                /\ \A k \in DOMAIN state' :
                      (k \notin DOMAIN state \/ state'[k] # state[k])
                         => \E j \in DOMAIN patch : k = name \o Sep \o j]_vars

\* facade a has just merged a patch setting x to 1, and b's key, a's other
\* key and the root key are in the parent state
C2_Witness ==
    /\ lastOp = [op |-> "facadeSet", path |-> <<S_a>>, fn |-> FALSE, replace |-> FALSE]
    /\ DOMAIN state = {S_a \o Sep \o S_x, S_a \o Sep \o S_y, S_b \o Sep \o S_x, S_r}
    /\ state[S_a \o Sep \o S_x] = Num(1)
    /\ state[S_b \o Sep \o S_x] = Num(1)

\* C14: replace write frame: a replacing write through the facade of a
\* namespace, with a value or a function, never adds, removes or changes a
\* parent key that does not begin with that namespace's prefix: the keys of
\* the other namespace and the root keys are there with the same values
\* afterwards.
C14_ReplaceWriteFrame ==
    [][\A path \in Paths : \A upd \in Updates(path) :
          FacadeWrote(path, upd, TRUE) =>
             LET own(k) == startsWith(k, path[1] \o Sep)
             IN /\ \A k \in DOMAIN state : ~own(k) => k \in DOMAIN state' /\ state'[k] = state[k]
                /\ \A k \in DOMAIN state' : ~own(k) => k \in DOMAIN state]_vars

\* facade a has just replaced its state by {x: 1}, and b's key and the
\* root key hold the 1 written to them earlier
C14_Witness ==
    /\ lastOp = [op |-> "facadeSet", path |-> <<S_a>>, fn |-> FALSE, replace |-> TRUE]
    /\ S_a \o Sep \o S_x \in DOMAIN state /\ state[S_a \o Sep \o S_x] = Num(1)
    /\ S_b \o Sep \o S_x \in DOMAIN state /\ state[S_b \o Sep \o S_x] = Num(1)
    /\ S_r \in DOMAIN state /\ state[S_r] = Num(1)

\* the calls the last operation made of the listener subscribed through path
CallsOf(path, made) == SelectSeq(made, LAMBDA c : c.path = path)

\* C3: subscription filtering: on a parent state change that leaves every
\* key of namespace a as it was (only keys of other namespaces or root keys
\* change), a listener subscribed through a's facade is not invoked; on a
\* change that alters a key of a it is invoked exactly once, with
\* (unprefix(a, new parent state), unprefix(a, old parent state)).
C3_SubscriptionFiltering ==
    [][lastOp'.op \in {"facadeSet", "parentSet"} =>
          \A path \in Subscribed :
             LET name == path[1]
                 untouched ==
                    /\ KeysOf(name, state') = KeysOf(name, state)
                    /\ \A k \in KeysOf(name, state) : state'[k] = state[k]
             IN CallsOf(path, calls') =
                   IF untouched THEN << >>
                   ELSE << [path |-> path,
                            new |-> getUnprefixedObject(name, state'),
                            old |-> getUnprefixedObject(name, state)] >>]_vars

\* with listeners subscribed through a and through b, a write through b's
\* facade has invoked b's listener once and a's listener not at all
C3_Witness ==
    /\ listeners = << <<S_a>>, <<S_b>> >>
    /\ lastOp.op = "facadeSet"
    /\ lastOp.path = <<S_b>>
    /\ Len(calls) = 1
    /\ calls[1].path = <<S_b>>
    /\ calls[1].new[S_x] # calls[1].old[S_x]

\* C9: facade reads are a live projection of the parent state: after a
\* facade setState returns, getState on that facade holds every key of the
\* patch with the patch's value, and after a direct parent write of n_k = v
\* getState on the facade of n holds k = v.
C9_LiveProjection ==
    [][/\ \A path \in Paths, replace \in BOOLEAN : \A upd \in Updates(path) :
            FacadeWrote(path, upd, replace) =>
               LET patch == resolveUpdate(upd, namespacedGetState(path, state))
                   seen == namespacedGetState(path, state')
               IN \A k \in DOMAIN patch : k \in DOMAIN seen /\ seen[k] = patch[k]
       /\ \A patch \in ParentPatches :
            ParentWrote(patch, FALSE) =>
               \A path \in Paths : \A k \in LocalKeys(path[1]) :
                  LET seen == namespacedGetState(path, state')
                  IN path[1] \o Sep \o k \in DOMAIN patch
                        => k \in DOMAIN seen /\ seen[k] = patch[path[1] \o Sep \o k]]_vars

\* a direct parent write has set a_y, and facade a reads y = 1 while facade
\* b reads its own x
C9_Witness ==
    /\ lastOp = [op |-> "parentSet", replace |-> FALSE]
    /\ S_y \in DOMAIN namespacedGetState(<<S_a>>, state)
    /\ namespacedGetState(<<S_a>>, state)[S_y] = Num(1)
    /\ namespacedGetState(<<S_a>>, initialState) = Put(EmptyObj, S_x, Num(0))
    /\ DOMAIN namespacedGetState(<<S_b>>, state) = {S_x}

-----------------------------------------------------------------------------
(* Properties of the store with a nested namespace, under NestSpec.        *)

\* C11: each invocation of a facade's setState, with a value or a function,
\* replacing or merging, makes exactly one call of the parent store's
\* setState, also when the facade is built over another facade.
C11_OneParentCall ==
    [][\A path \in NestPaths, fn \in BOOLEAN, replace \in BOOLEAN :
          lastOp' = [op |-> "facadeSet", path |-> path, fn |-> fn, replace |-> replace]
             => Len(setStateCalls') = 1]_vars

\* a function update through the facade of b over the facade of a has made
\* its one call of the store's setState, and x is 1
C11_Witness ==
    /\ lastOp = [op |-> "facadeSet", path |-> NestedFacade, fn |-> TRUE, replace |-> TRUE]
    /\ Len(setStateCalls) = 1
    /\ state[S_a \o Sep \o S_b \o Sep \o S_x] = Num(1)

NestedKey(k) == S_a \o Sep \o S_b \o Sep \o k

\* C13: nesting: the store built from namespaced(a) where a's creator is
\* namespaced(b)(root), b's creator returns {x: 0} and root returns {x: 0},
\* holds a_b_x = 0 and a_x = 0; and a merge write setState(patch) through
\* the facade of b over the facade of a sets a_b_k to patch[k] for the keys
\* of the patch and changes no other parent key.
C13_Nesting ==
    /\ [](/\ DOMAIN initialState = {NestedKey(S_x), S_a \o Sep \o S_x}
          /\ initialState[NestedKey(S_x)] = Num(0)
          /\ initialState[S_a \o Sep \o S_x] = Num(0))
    /\ [][\A patch \in NestPatches(NestedFacade) :
            FacadeWrote(NestedFacade, ValueUpdate(patch), FALSE) =>
               /\ DOMAIN state' = DOMAIN state \cup {NestedKey(k) : k \in DOMAIN patch}
               /\ \A k \in DOMAIN patch : state'[NestedKey(k)] = patch[k]
               /\ \A key \in DOMAIN state \ {NestedKey(k) : k \in DOMAIN patch} :
                     state'[key] = state[key]]_vars

\* a merge write through the facade of b over a has set a_b_x to 1 while
\* a_x holds the 1 written earlier through the facade of a
C13_Witness ==
    /\ lastOp = [op |-> "facadeSet", path |-> NestedFacade, fn |-> FALSE, replace |-> FALSE]
    /\ DOMAIN state = {NestedKey(S_x), S_a \o Sep \o S_x}
    /\ state[NestedKey(S_x)] = Num(1)
    /\ state[S_a \o Sep \o S_x] = Num(1)

CounterKey(path) == IF path = NestedFacade THEN NestedKey(S_x) ELSE S_a \o Sep \o S_x

\* C16: function updates see the current slice: a merging setState(f) with
\* f = s => ({x: s.x + 1}) through a facade, also one over another facade,
\* leaves the facade's counter one above what it was in the parent state at
\* the moment of the write (f is applied once, to the current unprefixed
\* view), under the facade's prefixed key, and changes no other key: so
\* successive function updates compose.
C16_FunctionUpdate ==
    [][\A path \in NestPaths : \A f \in Functions :
          FacadeWrote(path, FunctionUpdate(f), FALSE) =>
             /\ DOMAIN state' = DOMAIN state
             /\ state'[CounterKey(path)] = Num(state[CounterKey(path)].val + 1)
             /\ \A k \in DOMAIN state \ {CounterKey(path)} : state'[k] = state[k]]_vars

\* a function update through the facade of b over a has taken a_b_x to 2,
\* which no value patch writes: it was applied to the 1 an earlier update
\* left
C16_Witness ==
    /\ lastOp = [op |-> "facadeSet", path |-> NestedFacade, fn |-> TRUE, replace |-> FALSE]
    /\ state[NestedKey(S_x)] = Num(MaxVal + 1)
    /\ initialState[NestedKey(S_x)] = Num(0)

\* the patch assigns to each of its keys the value the facade's view holds
NoOpPatch(path, patch) ==
    LET view == namespacedGetState(path, state)
    IN \A k \in DOMAIN patch : k \in DOMAIN view /\ view[k] = patch[k]

\* C18: no-op writes are silent for facade listeners: a merging facade
\* write whose patch assigns to each key the value it already holds still
\* makes its one call of the parent's setState, after which the parent
\* holds the same keys and values and has invoked once every listener
\* subscribed to it directly, with equal new and previous states; no
\* listener subscribed through a facade is invoked.
C18_SilentNoOpWrite ==
    [][\A path \in NestPaths : \A patch \in NestPatches(path) :
          (NoOpPatch(path, patch) /\ FacadeWrote(path, ValueUpdate(patch), FALSE)) =>
             /\ Len(setStateCalls') = 1
             /\ state' = state
             /\ \A i \in 1..Len(calls') :
                   calls'[i] = [path |-> << >>, new |-> state, old |-> state]
             /\ \A p \in Subscribed :
                   Len(CallsOf(p, calls')) = IF p = << >> THEN 1 ELSE 0]_vars

\* with a listener subscribed directly and one through the facade of b
\* over a, a write through that facade that changed nothing has invoked
\* the direct listener alone
C18_Witness ==
    /\ lastOp = [op |-> "facadeSet", path |-> NestedFacade, fn |-> FALSE, replace |-> FALSE]
    /\ listeners = << NestedFacade, << >> >>
    /\ Len(calls) = 1
    /\ calls[1].path = << >>
    /\ calls[1].new = calls[1].old
    /\ state[NestedKey(S_x)] = Num(1)

====
